---------------------------- MODULE Spec2Model ----------------------------
(***************************************************************************)
(* ABCU Advising Assistance Program (ProjectTwo.cpp).                      *)
(*                                                                         *)
(* A std::string is a sequence of character codes (ASCII), so that trim,   *)
(* upper, the comma split, std::stoi and std::sort's byte-wise order are   *)
(* computed as the code computes them.  A text file is the sequence of its *)
(* lines, as std::getline(fin, line) yields them.                          *)
(***************************************************************************)
EXTENDS Integers, Sequences, FiniteSets, TLC

VARIABLES
    catalog,     \* main: CourseCatalog catalog  (data_: key -> Course)
    running,     \* main: bool running
    pc,          \* "menu" while the loop of main runs, "done" after return
    exit_code,   \* the value main returned (-1 while it has not returned)
    stdin,       \* lines std::cin still holds before its end
    option_raw,  \* main: option_raw after trim, of the last menu iteration
    branch,      \* the path the last iteration of the loop took
    out,         \* what the last iteration wrote to std::cout
    file,        \* the file the last load attempt was given
    loads        \* the files of the loads that succeeded, oldest first

vars == <<catalog, running, pc, exit_code, stdin, option_raw, branch, out, file, loads>>

-----------------------------------------------------------------------------
(* Bounds *)

\* lines of a file in LoadSpec
MaxFileLines == 3
\* lines on std::cin in Spec
MaxInput == 6

-----------------------------------------------------------------------------
(* Characters and strings *)

Ch == [tab |-> 9, lf |-> 10, vt |-> 11, ff |-> 12, cr |-> 13, sp |-> 32,
       plus |-> 43, comma |-> 44, minus |-> 45,
       d0 |-> 48, d1 |-> 49, d2 |-> 50, d3 |-> 51, d5 |-> 53, d9 |-> 57,
       A |-> 65, B |-> 66, C |-> 67, U |-> 85, Z |-> 90,
       a |-> 97, b |-> 98, c |-> 99, f |-> 102, t |-> 116, u |-> 117,
       x |-> 120, y |-> 121, z |-> 122]

\* std::isspace in the "C" locale
isspace(ch) == ch \in {Ch.sp, Ch.tab, Ch.lf, Ch.vt, Ch.ff, Ch.cr}

is_space_or_cntrl(ch) == isspace(ch) \/ ch = Ch.cr \/ ch = Ch.lf

RECURSIVE trim_front(_)
trim_front(s) ==
    IF s # <<>> /\ is_space_or_cntrl(Head(s)) THEN trim_front(Tail(s)) ELSE s

RECURSIVE trim_back(_)
trim_back(s) ==
    IF s # <<>> /\ is_space_or_cntrl(s[Len(s)])
    THEN trim_back(SubSeq(s, 1, Len(s) - 1))
    ELSE s

trim(s) == trim_back(trim_front(s))

\* std::toupper in the "C" locale
toupper(ch) == IF ch >= Ch.a /\ ch <= Ch.z THEN ch - (Ch.a - Ch.A) ELSE ch

upper(s) == [i \in 1..Len(s) |-> toupper(s[i])]

\* std::getline(ss, item, ','): the characters up to the next comma or the
\* end; it fails, ending the loop, when no character is left to read.
RECURSIVE split_from(_, _)
split_from(line, pos) ==
    IF pos > Len(line) THEN <<>>
    ELSE LET stops == {j \in pos..Len(line) : line[j] = Ch.comma}
         IN  IF stops = {}
             THEN <<trim(SubSeq(line, pos, Len(line)))>>
             ELSE LET j == CHOOSE k \in stops : \A m \in stops : k <= m
                  IN  <<trim(SubSeq(line, pos, j - 1))>> \o split_from(line, j + 1)

split_csv_simple(line) == split_from(line, 1)

\* std::string operator< : byte-wise, a proper prefix first
RECURSIVE string_less(_, _)
string_less(s, r) ==
    IF r = <<>> THEN FALSE
    ELSE IF s = <<>> THEN TRUE
    ELSE IF Head(s) # Head(r) THEN Head(s) < Head(r)
    ELSE string_less(Tail(s), Tail(r))

-----------------------------------------------------------------------------
(* Data model *)

Course(num, name) == [number |-> num, title |-> name, prereqs |-> <<>>]

EmptyCatalog == [k \in {} |-> Course(<<>>, <<>>)]

\* data_.insert({upper(c.number), c}) in place of operator[]: an entry that
\* exists is kept.
upsert_keeps_first(data, c) ==
    LET key == upper(c.number)
    IN  [k \in DOMAIN data \cup {key} |-> IF k \in DOMAIN data THEN data[k] ELSE c]

upsert(data, c) ==
    LET key == upper(c.number)
    IN  [k \in DOMAIN data \cup {key} |-> IF k = key THEN c ELSE data[k]]

contains(data, number) == upper(number) \in DOMAIN data

NotFound == [found |-> FALSE]

\* data_.find(number), the argument not uppercased.
get_exact(data, number) ==
    IF number \in DOMAIN data
    THEN [found |-> TRUE, course |-> data[number]]
    ELSE NotFound

get(data, number) ==
    IF upper(number) \in DOMAIN data
    THEN [found |-> TRUE, course |-> data[upper(number)]]
    ELSE NotFound

\* The orders in which the unordered_map may hand out its keys
\* (for (const auto& kv : data_) keys.push_back(kv.first)): unspecified.
IterationOrders(data) ==
    {o \in [1..Cardinality(DOMAIN data) -> DOMAIN data] :
        \A i, j \in DOMAIN o : i # j => o[i] # o[j]}

\* The keys as collected, std::sort left out.
sorted_numbers_unsorted(data) == IterationOrders(data)

\* The values sorted_numbers() can return: the keys in some iteration
\* order, then std::sort.
sorted_numbers(data) == {SortSeq(keys, string_less) : keys \in IterationOrders(data)}

empty(data) == DOMAIN data = {}

-----------------------------------------------------------------------------
(* Loading *)

\* A file on disk: whether std::ifstream opens it, and its lines.
Unopenable == [opened |-> FALSE, lines |-> <<>>]
TextFile(lines) == [opened |-> TRUE, lines |-> lines]

NoError == [kind |-> "none", line_no |-> 0]
LoadError(kind, line_no) == [kind |-> kind, line_no |-> line_no]

\* The prerequisites without the test  if (!prereq.empty()).
prereqs_keeps_empty(fields, i) == [k \in 1..(Len(fields) - i) |-> upper(fields[i + k])]

\* The prerequisites of a line: fields[2..] uppercased, empty ones dropped
\* (0-based index i of the code is position i + 1 here).
RECURSIVE prereqs_from(_, _)
prereqs_from(fields, i) ==
    IF i >= Len(fields) THEN <<>>
    ELSE LET prereq == upper(fields[i + 1])
         IN  (IF prereq # <<>> THEN <<prereq>> ELSE <<>>) \o prereqs_from(fields, i + 1)

\* The while loop of load_catalog_from_csv over the lines still unread,
\* line_no being the number of lines read so far.
RECURSIVE read_lines(_, _, _)
read_lines(rest, line_no, temp) ==
    IF rest = <<>> THEN [ok |-> TRUE, temp |-> temp, err |-> NoError]
    ELSE LET n    == line_no + 1
             line == trim(Head(rest))
         IN  IF line = <<>> THEN read_lines(Tail(rest), n, temp)
             ELSE LET fields == split_csv_simple(line)
                  IN  IF Len(fields) < 2
                      THEN [ok |-> FALSE, temp |-> temp, err |-> LoadError("parse", n)]
                      ELSE LET number == upper(fields[1])
                               title  == fields[2]
                           IN  IF number = <<>> \/ title = <<>>
                               THEN [ok |-> FALSE, temp |-> temp,
                                     err |-> LoadError("invalid", n)]
                               ELSE LET c == [Course(number, title) EXCEPT
                                                !.prereqs = prereqs_from(fields, 2)]
                                    IN  read_lines(Tail(rest), n, upsert(temp, c))

\* bool load_catalog_from_csv(file_path, out_catalog, err): the value
\* returned, and out_catalog and err as the call leaves them.
load_catalog_from_csv(f, out_catalog) ==
    IF ~f.opened
    THEN [ok |-> FALSE, out_catalog |-> out_catalog, err |-> LoadError("open", 0)]
    ELSE LET r == read_lines(f.lines, 0, EmptyCatalog)
         IN  IF r.ok
             THEN [ok |-> TRUE, out_catalog |-> r.temp, err |-> NoError]
             ELSE [ok |-> FALSE, out_catalog |-> out_catalog, err |-> r.err]

-----------------------------------------------------------------------------
(* Presentation *)

Say(kind) == [kind |-> kind]
CourseLine(c) == [kind |-> "course", number |-> c.number, title |-> c.title]

RECURSIVE list_lines(_, _)
list_lines(data, numbers) ==
    IF numbers = <<>> THEN <<>>
    ELSE LET c == get(data, Head(numbers))
         IN  (IF c.found THEN <<CourseLine(c.course)>> ELSE <<>>)
             \o list_lines(data, Tail(numbers))

\* What print_course_list can write: the header, then one line per number.
print_course_list(data) ==
    {<<Say("schedule")>> \o list_lines(data, numbers) : numbers \in sorted_numbers(data)}

print_course_details(data, user_input_number) ==
    LET number == upper(user_input_number)
        c      == get(data, number)
    IN  IF ~c.found THEN <<[kind |-> "not_found", number |-> number]>>
        ELSE IF c.course.prereqs = <<>>
        THEN <<CourseLine(c.course), Say("prereqs_none")>>
        ELSE <<CourseLine(c.course),
               [kind |-> "prereqs",
                list |-> [i \in 1..Len(c.course.prereqs) |->
                            LET pnum == c.course.prereqs[i]
                                p    == get(data, pnum)
                            IN  IF p.found THEN p.course.number ELSE pnum]]>>

-----------------------------------------------------------------------------
(* The menu option *)

isdigit(ch) == ch >= Ch.d0 /\ ch <= Ch.d9

RECURSIVE leading_digits(_)
leading_digits(s) ==
    IF s # <<>> /\ isdigit(Head(s)) THEN <<Head(s)>> \o leading_digits(Tail(s)) ELSE <<>>

RECURSIVE decimal_value(_, _)
decimal_value(digits, acc) ==
    IF digits = <<>> THEN acc
    ELSE decimal_value(Tail(digits), 10 * acc + (Head(digits) - Ch.d0))

\* std::stoi(str): leading white space, an optional sign, then the longest
\* run of digits; what follows the digits is ignored; no digit at all
\* throws std::invalid_argument.  (The strings given to it here hold at
\* most two characters, so the value is never out of range.)
stoi(str) ==
    LET s      == trim_front(str)
        signed == s # <<>> /\ Head(s) \in {Ch.plus, Ch.minus}
        digits == leading_digits(IF signed THEN Tail(s) ELSE s)
        value  == decimal_value(digits, 0)
    IN  IF digits = <<>> THEN [ok |-> FALSE, value |-> 0]
        ELSE [ok |-> TRUE,
              value |-> IF signed /\ Head(s) = Ch.minus THEN 0 - value ELSE value]

\* What the loop of main makes of a line read at the menu prompt, up to the
\* switch: "blank", "invalid" (too long, or stoi threw) or the option.
menu_option(option_raw_line) ==
    LET o == trim(option_raw_line)
    IN  IF o = <<>> THEN [kind |-> "blank", value |-> 0]
        ELSE IF Len(o) > 2 THEN [kind |-> "invalid", value |-> 0]
        ELSE IF ~stoi(o).ok THEN [kind |-> "invalid", value |-> 0]
        ELSE [kind |-> "option", value |-> stoi(o).value]

-----------------------------------------------------------------------------
(* Inputs *)

\* Lines typed at the menu prompt.
MenuLines ==
    { <<Ch.d1>>, <<Ch.d2>>, <<Ch.d3>>, <<Ch.d9>>, <<Ch.sp, Ch.d2, Ch.sp>>,
      <<>>, <<Ch.sp>>, <<Ch.d5>>, <<Ch.x>>, <<Ch.d1, Ch.x>>, <<Ch.plus, Ch.d9>>,
      <<Ch.minus, Ch.d1>>, <<Ch.d1, Ch.d2, Ch.d3>> }

\* Lines typed at the file name prompt.
FileNameLines == { <<Ch.f>>, <<Ch.sp>> }

\* Lines typed at the course prompt.
CourseLines == { <<Ch.a>>, <<Ch.sp, Ch.B, Ch.sp>>, <<Ch.c>>, <<>> }

\* "a,t" / "b,u,a"
Line_a_t   == <<Ch.a, Ch.comma, Ch.t>>
Line_b_u_a == <<Ch.b, Ch.comma, Ch.u, Ch.comma, Ch.a>>
\* "B,x"
Line_B_x   == <<Ch.B, Ch.comma, Ch.x>>
\* "b" (one field) and ",x" (no course number)
Line_b     == <<Ch.b>>
Line__x    == <<Ch.comma, Ch.x>>

\* The files a load in Spec may be given.
DiskFiles ==
    { Unopenable,
      TextFile(<<Line_a_t, Line_b_u_a>>),
      TextFile(<<Line_B_x>>),
      TextFile(<<>>),
      TextFile(<< <<>>, <<Ch.sp>> >>),
      TextFile(<<Line_a_t, Line_b>>),
      TextFile(<< <<>>, Line_B_x, Line__x >>) }

-----------------------------------------------------------------------------
(* main *)

Init ==
    /\ catalog = EmptyCatalog
    /\ running = TRUE
    /\ pc = "menu"
    /\ exit_code = -1
    /\ stdin \in 0..MaxInput
    /\ option_raw = <<>>
    /\ branch = "start"
    /\ out = <<>>
    /\ file = Unopenable
    /\ loads = <<>>

\* if (!std::getline(std::cin, option_raw)) break;  ...  return 0;
MenuEndOfInput ==
    /\ pc = "menu" /\ running
    /\ stdin = 0
    /\ pc' = "done"
    /\ exit_code' = 0
    /\ branch' = "eof"
    /\ out' = <<>>
    /\ UNCHANGED <<catalog, running, stdin, option_raw, file, loads>>

\* One more turn of the loop that reads only the menu line and comes back.
Back(line, how, said) ==
    /\ stdin' = stdin - 1
    /\ option_raw' = trim(line)
    /\ branch' = how
    /\ out' = said
    /\ UNCHANGED <<catalog, running, pc, exit_code, file, loads>>

BlankOption ==
    /\ pc = "menu" /\ running /\ stdin > 0
    /\ \E line \in MenuLines :
        /\ menu_option(line).kind = "blank"
        /\ Back(line, "blank", <<Say("enter_option")>>)

InvalidOption ==
    /\ pc = "menu" /\ running /\ stdin > 0
    /\ \E line \in MenuLines :
        /\ menu_option(line).kind = "invalid"
        /\ Back(line, "invalid", <<[kind |-> "not_valid", text |-> trim(line)]>>)

DefaultOption ==
    /\ pc = "menu" /\ running /\ stdin > 0
    /\ \E line \in MenuLines :
        /\ menu_option(line).kind = "option"
        /\ menu_option(line).value \notin {1, 2, 3, 9}
        /\ Back(line, "default",
                <<[kind |-> "not_valid_number", value |-> menu_option(line).value]>>)

Chosen(line, option) ==
    /\ menu_option(line).kind = "option"
    /\ menu_option(line).value = option

\* The input ending at the file name prompt ends the loop.
LoadCancelledEndsLoop ==
    /\ pc = "menu" /\ running /\ stdin = 1
    /\ \E line \in MenuLines :
        /\ Chosen(line, 1)
        /\ stdin' = stdin - 1
        /\ option_raw' = trim(line)
        /\ branch' = "load_cancelled"
        /\ out' = <<Say("input_cancelled")>>
        /\ pc' = "done"
        /\ exit_code' = 0
        /\ UNCHANGED <<catalog, running, file, loads>>

\* case 1, std::cin at its end when the file name is read
LoadCancelled ==
    /\ pc = "menu" /\ running /\ stdin = 1
    /\ \E line \in MenuLines :
        /\ Chosen(line, 1)
        /\ Back(line, "load_cancelled", <<Say("input_cancelled")>>)

\* case 1, an empty file name
LoadEmptyName ==
    /\ pc = "menu" /\ running /\ stdin > 1
    /\ \E line \in MenuLines, filename \in FileNameLines :
        /\ Chosen(line, 1)
        /\ trim(filename) = <<>>
        /\ stdin' = stdin - 2
        /\ option_raw' = trim(line)
        /\ branch' = "load_empty_name"
        /\ out' = <<Say("file_name_empty")>>
        /\ UNCHANGED <<catalog, running, pc, exit_code, file, loads>>

\* The result of the load put into the live catalog next to what it holds.
LoadAttemptMerges(f) ==
    LET r == load_catalog_from_csv(f, EmptyCatalog)
    IN  /\ IF r.ok
           THEN /\ catalog' = [k \in DOMAIN catalog \cup DOMAIN r.out_catalog |->
                                 IF k \in DOMAIN r.out_catalog THEN r.out_catalog[k]
                                 ELSE catalog[k]]
                /\ loads' = Append(loads, f.lines)
                /\ out' = <<[kind |-> "loaded", courses |-> Cardinality(DOMAIN r.out_catalog)]>>
           ELSE /\ out' = <<[kind |-> "error", err |-> r.err]>>
                /\ UNCHANGED <<catalog, loads>>
        /\ file' = f
        /\ branch' = "load"

\* std::string err; CourseCatalog newCatalog;
\* if (load_catalog_from_csv(filename, newCatalog, err)) { ... } else { ... }
\* catalog = std::move(newCatalog) done whatever the call returned.
LoadAttemptKeepsResult(f) ==
    LET r == load_catalog_from_csv(f, EmptyCatalog)
    IN  /\ catalog' = r.out_catalog
        /\ loads' = IF r.ok THEN Append(loads, f.lines) ELSE loads
        /\ out' = IF r.ok THEN <<[kind |-> "loaded", courses |-> Cardinality(DOMAIN r.out_catalog)]>>
                  ELSE <<[kind |-> "error", err |-> r.err]>>
        /\ file' = f
        /\ branch' = "load"

LoadAttempt(f) ==
    LET r == load_catalog_from_csv(f, EmptyCatalog)
    IN  /\ IF r.ok
           THEN /\ catalog' = r.out_catalog
                /\ loads' = Append(loads, f.lines)
                /\ \E numbers \in sorted_numbers(r.out_catalog) :
                      out' = <<[kind |-> "loaded", courses |-> Len(numbers)]>>
           ELSE /\ out' = <<[kind |-> "error", err |-> r.err]>>
                /\ UNCHANGED <<catalog, loads>>
        /\ file' = f
        /\ branch' = "load"

\* case 1, a file name given
Load ==
    /\ pc = "menu" /\ running /\ stdin > 1
    /\ \E line \in MenuLines, filename \in FileNameLines, f \in DiskFiles :
        /\ Chosen(line, 1)
        /\ trim(filename) # <<>>
        /\ stdin' = stdin - 2
        /\ option_raw' = trim(line)
        /\ LoadAttempt(f)
        /\ UNCHANGED <<running, pc, exit_code>>

\* Option 2 with a flag "a load has succeeded" in place of catalog.empty().
ListAfterAnyLoad ==
    /\ pc = "menu" /\ running /\ stdin > 0
    /\ \E line \in MenuLines :
        /\ Chosen(line, 2)
        /\ \E said \in (IF loads = <<>> THEN {<<Say("load_first")>>}
                        ELSE print_course_list(catalog)) :
              Back(line, "list", said)

\* case 2
List ==
    /\ pc = "menu" /\ running /\ stdin > 0
    /\ \E line \in MenuLines :
        /\ Chosen(line, 2)
        /\ \E said \in (IF empty(catalog) THEN {<<Say("load_first")>>}
                        ELSE print_course_list(catalog)) :
              Back(line, "list", said)

\* case 3, nothing loaded
DetailLoadFirst ==
    /\ pc = "menu" /\ running /\ stdin > 0
    /\ empty(catalog)
    /\ \E line \in MenuLines :
        /\ Chosen(line, 3)
        /\ Back(line, "detail", <<Say("load_first")>>)

\* case 3, std::cin at its end when the course number is read
DetailCancelled ==
    /\ pc = "menu" /\ running /\ stdin = 1
    /\ ~empty(catalog)
    /\ \E line \in MenuLines :
        /\ Chosen(line, 3)
        /\ Back(line, "detail_cancelled", <<Say("input_cancelled")>>)

\* case 3, a course number read
Detail ==
    /\ pc = "menu" /\ running /\ stdin > 1
    /\ ~empty(catalog)
    /\ \E line \in MenuLines, number \in CourseLines :
        /\ Chosen(line, 3)
        /\ stdin' = stdin - 2
        /\ option_raw' = trim(line)
        /\ IF trim(number) = <<>>
           THEN branch' = "detail_empty" /\ out' = <<Say("course_number_empty")>>
           ELSE branch' = "detail" /\ out' = print_course_details(catalog, trim(number))
        /\ UNCHANGED <<catalog, running, pc, exit_code, file, loads>>

\* case 9:  running = false;  then the loop ends and main returns 0
Exit ==
    /\ pc = "menu" /\ running /\ stdin > 0
    /\ \E line \in MenuLines :
        /\ Chosen(line, 9)
        /\ stdin' = stdin - 1
        /\ option_raw' = trim(line)
        /\ running' = FALSE
        /\ pc' = "done"
        /\ exit_code' = 0
        /\ branch' = "exit"
        /\ out' = <<Say("thank_you")>>
        /\ UNCHANGED <<catalog, file, loads>>

Next ==
    \/ MenuEndOfInput
    \/ BlankOption
    \/ InvalidOption
    \/ DefaultOption
    \/ LoadCancelled
    \/ LoadEmptyName
    \/ Load
    \/ List
    \/ DetailLoadFirst
    \/ DetailCancelled
    \/ Detail
    \/ Exit

Spec == Init /\ [][Next]_vars

\* Every turn of the loop either reads a line that std::cin holds or finds
\* it at its end; the program is never suspended for good.
FairSpec == Spec /\ WF_vars(Next)

-----------------------------------------------------------------------------
(* The loader and the two views on every small file *)

\* "aB,t"
Line_aB_t    == <<Ch.a, Ch.B, Ch.comma, Ch.t>>
\* "AB,U,b,,b "
Line_AB_U_bb == <<Ch.A, Ch.B, Ch.comma, Ch.U, Ch.comma, Ch.b, Ch.comma, Ch.comma, Ch.b, Ch.sp>>
\* " b , x y ,ab,C"
Line_b_xy_ab_C ==
    <<Ch.sp, Ch.b, Ch.sp, Ch.comma, Ch.sp, Ch.x, Ch.sp, Ch.y, Ch.sp, Ch.comma,
      Ch.a, Ch.b, Ch.comma, Ch.C>>
\* "" and " \r"
Line_empty   == <<>>
Line_sp_cr   == <<Ch.sp, Ch.cr>>
\* "c" and "b,"
Line_c       == <<Ch.c>>
Line_b_      == <<Ch.b, Ch.comma>>
\* ",t" and "c, ,b"
Line__t      == <<Ch.comma, Ch.t>>
Line_c__b    == <<Ch.c, Ch.comma, Ch.sp, Ch.comma, Ch.b>>
\* "c,t,"
Line_c_t_    == <<Ch.c, Ch.comma, Ch.t, Ch.comma>>

FileLines ==
    { Line_aB_t, Line_AB_U_bb, Line_b_xy_ab_C, Line_empty, Line_sp_cr,
      Line_c, Line_b_, Line__t, Line_c__b, Line_c_t_ }

AllFiles ==
    {TextFile(l) : l \in UNION {[1..n -> FileLines] : n \in 0..MaxFileLines}}

\* Course numbers asked for, as print_course_details gets them.
Queries ==
    { <<Ch.a, Ch.b>>, <<Ch.A, Ch.b>>, <<Ch.A, Ch.B>>, <<Ch.b>>, <<Ch.B>>,
      <<Ch.c>>, <<Ch.x>> }

LoadInit ==
    /\ catalog = EmptyCatalog
    /\ running = TRUE
    /\ pc = "menu"
    /\ exit_code = -1
    /\ stdin = 0
    /\ option_raw = <<>>
    /\ branch = "start"
    /\ out = <<>>
    /\ file \in AllFiles
    /\ loads = <<>>

\* case 1 of main from the call of load_catalog_from_csv on, for `file`
CallLoad ==
    /\ branch = "start"
    /\ LoadAttempt(file)
    /\ UNCHANGED <<running, pc, exit_code, stdin, option_raw>>

\* case 2 of main
CallList ==
    /\ branch # "start"
    /\ out' \in (IF empty(catalog) THEN {<<Say("load_first")>>}
                 ELSE print_course_list(catalog))
    /\ branch' = "list"
    /\ UNCHANGED <<catalog, running, pc, exit_code, stdin, option_raw, file, loads>>

\* case 3 of main once the course number is read
CallDetail ==
    /\ branch # "start"
    /\ ~empty(catalog)
    /\ \E number \in Queries :
          out' = print_course_details(catalog, number)
    /\ branch' = "detail"
    /\ UNCHANGED <<catalog, running, pc, exit_code, stdin, option_raw, file, loads>>

LoadNext == CallLoad \/ CallList \/ CallDetail

LoadSpec == LoadInit /\ [][LoadNext]_vars

-----------------------------------------------------------------------------
(* What the specification says of a line and of a file, stated without the  *)
(* loader: the fields of a line are what lies between its commas.           *)

CommasOf(line) == {i \in 1..Len(line) : line[i] = Ch.comma}

\* The position of the k-th comma; 0 before the first field, Len + 1 after
\* the last.
CutOf(line, k) ==
    IF k = 0 THEN 0
    ELSE IF k > Cardinality(CommasOf(line)) THEN Len(line) + 1
    ELSE CHOOSE i \in CommasOf(line) : Cardinality({j \in CommasOf(line) : j <= i}) = k

\* (number of commas + 1) trimmed fields
FieldsOf(line) ==
    [k \in 1..(Cardinality(CommasOf(line)) + 1) |->
        trim(SubSeq(line, CutOf(line, k - 1) + 1, CutOf(line, k) - 1))]

IsBlank(line) == \A i \in 1..Len(line) : is_space_or_cntrl(line[i])

\* The non-blank lines of a file, by 1-based position.
RecordLines(lines) == {i \in 1..Len(lines) : ~IsBlank(lines[i])}

IdOf(line)    == upper(FieldsOf(trim(line))[1])
TitleOf(line) == FieldsOf(trim(line))[2]
PrereqsOf(line) ==
    LET fs == FieldsOf(trim(line))
    IN  SelectSeq([k \in 1..(Len(fs) - 2) |-> upper(fs[k + 2])], LAMBDA p : p # <<>>)

TooFewFields(line) == Len(FieldsOf(trim(line))) < 2
MissingData(line) ==
    /\ ~TooFewFields(line)
    /\ (FieldsOf(trim(line))[1] = <<>> \/ FieldsOf(trim(line))[2] = <<>>)

\* The last line of the file that carries identifier k.
LastOccurrence(lines, k) ==
    CHOOSE i \in RecordLines(lines) :
        /\ IdOf(lines[i]) = k
        /\ \A j \in RecordLines(lines) : IdOf(lines[j]) = k => j <= i

\* The lines of the file of the most recent load that succeeded.
LastLoaded == loads[Len(loads)]

LoadSucceeded == branch # "start" /\ loads # <<>> /\ file.opened /\ LastLoaded = file.lines

-----------------------------------------------------------------------------
\* C3: for every file that loads, the catalog holds exactly one record per
\* distinct uppercased identifier of the file and no other; the record
\* stored for an identifier (number, title, prerequisites) is the one of
\* the identifier's last line in the file, and get() with the identifier
\* as any line of the file wrote it returns that title.
C3_OneRecordPerIdentifierLastWins ==
    LoadSucceeded =>
        LET lines == file.lines
        IN  /\ DOMAIN catalog = {IdOf(lines[i]) : i \in RecordLines(lines)}
            /\ \A k \in DOMAIN catalog :
                  LET last == lines[LastOccurrence(lines, k)]
                  IN  /\ catalog[k].number = k
                      /\ catalog[k].title = TitleOf(last)
                      /\ catalog[k].prereqs = PrereqsOf(last)
            /\ \A i \in RecordLines(lines) :
                  LET asked == FieldsOf(trim(lines[i]))[1]
                      last  == lines[LastOccurrence(lines, IdOf(lines[i]))]
                  IN  /\ get(catalog, asked).found
                      /\ get(catalog, asked).course.title = TitleOf(last)

\* A file that writes one identifier in two cases on two lines, with a
\* third course between them, has loaded.
C3_Witness ==
    /\ LoadSucceeded
    /\ file.lines = <<Line_aB_t, Line_b_xy_ab_C, Line_AB_U_bb>>
    /\ DOMAIN catalog = {<<Ch.A, Ch.B>>, <<Ch.B>>}
    /\ catalog[<<Ch.A, Ch.B>>].title = <<Ch.U>>

-----------------------------------------------------------------------------
\* Lexicographic order of byte strings, stated on positions: s comes before
\* r when they agree up to some position where s has ended and r has not,
\* or where s holds the smaller byte.
LexBefore(s, r) ==
    \E n \in 0..Len(s) :
        /\ n <= Len(r)
        /\ \A i \in 1..n : s[i] = r[i]
        /\ \/ n = Len(s) /\ n < Len(r)
           \/ n < Len(s) /\ n < Len(r) /\ s[n + 1] < r[n + 1]

\* C4: for every catalog, sorted_numbers() has one possible value whatever
\* order the map hands its keys out in (so repeated calls agree); that
\* value lists each key once, in strictly ascending lexicographic order,
\* none missing; and option 2 on a catalog that is not empty prints the
\* header and then one "number, title" line per record in that order.
C4_SortedListing ==
    /\ \A numbers \in sorted_numbers(catalog) :
          /\ Len(numbers) = Cardinality(DOMAIN catalog)
          /\ {numbers[i] : i \in 1..Len(numbers)} = DOMAIN catalog
          /\ \A i \in 1..(Len(numbers) - 1) : LexBefore(numbers[i], numbers[i + 1])
    /\ Cardinality(sorted_numbers(catalog)) = 1
    /\ (branch = "list" /\ ~empty(catalog)) =>
          /\ Len(out) = 1 + Cardinality(DOMAIN catalog)
          /\ out[1] = Say("schedule")
          /\ \A i \in 2..Len(out) :
                /\ out[i].kind = "course"
                /\ out[i].number \in DOMAIN catalog
                /\ out[i].title = catalog[out[i].number].title
                /\ i > 2 => LexBefore(out[i - 1].number, out[i].number)

\* Three courses, loaded in an order that is not the sorted one, are listed.
C4_Witness ==
    /\ branch = "list"
    /\ file.lines = <<Line_c_t_, Line_b_xy_ab_C, Line_aB_t>>
    /\ Len(out) = 4
    /\ out[2].number = <<Ch.A, Ch.B>>
    /\ out[3].number = <<Ch.B>>
    /\ out[4].number = <<Ch.C>>

-----------------------------------------------------------------------------
\* Two strings that differ only in letter case: the same length, and at
\* each position the same character or the two cases of one letter.
IsLower(ch) == ch >= Ch.a /\ ch <= Ch.z
SameLetter(p, q) ==
    \/ p = q
    \/ IsLower(p) /\ q = p - (Ch.a - Ch.A)
    \/ IsLower(q) /\ p = q - (Ch.a - Ch.A)
DifferOnlyInCase(s, r) ==
    /\ Len(s) = Len(r)
    /\ \A i \in 1..Len(s) : SameLetter(s[i], r[i])

\* C5: for every catalog and every two identifiers that differ only in
\* letter case, get() gives the same result for both and so does
\* contains(), and contains() says whether get() finds a record; in
\* whatever case the file wrote the identifier, the record is found under
\* each of these spellings.
C5_LookupIgnoresCase ==
    /\ \A s, r \in Queries :
          DifferOnlyInCase(s, r) =>
              /\ get(catalog, s) = get(catalog, r)
              /\ contains(catalog, s) = contains(catalog, r)
    /\ \A s \in Queries : contains(catalog, s) = get(catalog, s).found
    /\ LoadSucceeded =>
          \A i \in RecordLines(file.lines), s \in Queries :
              DifferOnlyInCase(FieldsOf(trim(file.lines[i]))[1], s) => get(catalog, s).found

\* The file writes "aB"; the course is found as ab, Ab and AB, and the
\* detail view has printed it.
C5_Witness ==
    /\ LoadSucceeded
    /\ file.lines = <<Line_aB_t>>
    /\ branch = "detail"
    /\ out[1] = [kind |-> "course", number |-> <<Ch.A, Ch.B>>, title |-> <<Ch.t>>]
    /\ get(catalog, <<Ch.a, Ch.b>>).found
    /\ get(catalog, <<Ch.A, Ch.b>>).found
    /\ get(catalog, <<Ch.A, Ch.B>>).found

-----------------------------------------------------------------------------
\* The first line of the file that is not blank and has too few fields or
\* lacks its identifier or title, counting fields between commas.
Offending(lines) == {i \in RecordLines(lines) : TooFewFields(lines[i]) \/ MissingData(lines[i])}
FirstOffending(lines) == CHOOSE i \in Offending(lines) : \A j \in Offending(lines) : i <= j

\* C6: the loader splits every non-blank line on every comma into (number
\* of commas + 1) trimmed fields; the first non-blank line with fewer than
\* two fields fails the load with a parse error, the first line with two
\* fields or more whose identifier or title is empty fails it with an
\* invalid-data error, and the error names that line's 1-based position in
\* the file, blank lines counted.
C6_FieldsAndErrorLine ==
    (branch = "load" /\ file.opened) =>
        /\ \A i \in RecordLines(file.lines) :
              split_csv_simple(trim(file.lines[i])) = FieldsOf(trim(file.lines[i]))
        /\ Offending(file.lines) # {} =>
              LET n == FirstOffending(file.lines)
              IN  out = <<[kind |-> "error",
                           err  |-> LoadError(IF TooFewFields(file.lines[n])
                                              THEN "parse" ELSE "invalid", n)]>>

-----------------------------------------------------------------------------
\* C10: after a load that succeeds, every record's prerequisite list is the
\* fields at index 2 and above of its line, trimmed and uppercased, the
\* empty ones removed, in file order with duplicates kept, whether or not
\* they are keys of the catalog; and the detail view of a course prints
\* "None" when its list is empty and otherwise the stored identifiers
\* themselves, in stored order.
C10_PrerequisitesStoredAndShown ==
    /\ LoadSucceeded =>
          \A k \in DOMAIN catalog :
              LET fs == FieldsOf(trim(file.lines[LastOccurrence(file.lines, k)]))
                  wanted == {i \in 3..Len(fs) : fs[i] # <<>>}
                  stored == catalog[k].prereqs
              IN  /\ Len(stored) = Cardinality(wanted)
                  /\ \A n \in 1..Len(stored) :
                        \E i \in wanted :
                            /\ Cardinality({j \in wanted : j <= i}) = n
                            /\ stored[n] = upper(fs[i])
    /\ (branch = "detail" /\ out[1].kind = "course") =>
          LET stored == catalog[out[1].number].prereqs
          IN  /\ Len(out) = 2
              /\ stored = <<>> => out[2] = Say("prereqs_none")
              /\ stored # <<>> => out[2] = [kind |-> "prereqs", list |-> stored]

\* The detail view of a course whose line names B twice around an empty
\* field, B being no course of the catalog.
C10_Witness ==
    /\ LoadSucceeded
    /\ file.lines = <<Line_AB_U_bb>>
    /\ branch = "detail"
    /\ out = <<[kind |-> "course", number |-> <<Ch.A, Ch.B>>, title |-> <<Ch.U>>],
               [kind |-> "prereqs", list |-> << <<Ch.B>>, <<Ch.B>> >>]>>

-----------------------------------------------------------------------------
\* A load attempt fails, by the specification's account of files: the file
\* cannot be opened, or one of its lines is an offending one.
MustFail(f) == ~f.opened \/ Offending(f.lines) # {}

\* The step is a turn of the loop that called load_catalog_from_csv.
LoadAttempted == branch' = "load" /\ stdin' < stdin

\* C1: every load attempt that must fail (the file does not open, a
\* non-blank line has fewer than two fields, a line lacks its identifier or
\* its title) reports an error, and every load attempt that reports an
\* error leaves the live catalog exactly as it was before the attempt.
C1_FailedLoadKeepsCatalog ==
    [][LoadAttempted =>
          /\ MustFail(file') => (Len(out') = 1 /\ out'[1].kind = "error")
          /\ out'[1].kind = "error" => catalog' = catalog]_vars

\* A file whose second line has one field, after a valid first line, was
\* refused while two courses of an earlier load were live.
C1_Witness ==
    /\ branch = "load"
    /\ file = TextFile(<<Line_a_t, Line_b>>)
    /\ out = <<[kind |-> "error", err |-> LoadError("parse", 2)]>>
    /\ loads = << <<Line_B_x>> >>
    /\ DOMAIN catalog = {<<Ch.B>>}

-----------------------------------------------------------------------------
\* The catalog the specification gives a file without offending lines: one
\* record per identifier, that of the identifier's last line.
CatalogOf(lines) ==
    [k \in {IdOf(lines[i]) : i \in RecordLines(lines)} |->
        LET last == lines[LastOccurrence(lines, k)]
        IN  [number |-> k, title |-> TitleOf(last), prereqs |-> PrereqsOf(last)]]

\* C2: in every state the live catalog is empty if no load has succeeded,
\* and otherwise is the whole catalog of the file of the most recent load
\* that succeeded (a file without offending lines): nothing of an earlier
\* load is left in it, and nothing of that file is missing from it.
C2_CatalogIsLastSuccessfulLoad ==
    IF loads = <<>>
    THEN catalog = EmptyCatalog
    ELSE /\ Offending(LastLoaded) = {}
         /\ catalog = CatalogOf(LastLoaded)

\* A file with courses A and B was loaded, then a file with course B alone,
\* then a file with a bad line was refused: only the second file's B is live.
C2_Witness ==
    /\ loads = << <<Line_a_t, Line_b_u_a>>, <<Line_B_x>> >>
    /\ branch = "load"
    /\ out[1].kind = "error"
    /\ DOMAIN catalog = {<<Ch.B>>}
    /\ catalog[<<Ch.B>>].title = <<Ch.x>>

-----------------------------------------------------------------------------
\* The menu texts the specification takes for an option.
ExactOptions == { <<Ch.d1>>, <<Ch.d2>>, <<Ch.d3>>, <<Ch.d9>> }

\* C7: whenever the line read at the menu prompt, trimmed, is not exactly
\* 1, 2, 3 or 9, the program says that the input is no valid option (or, for
\* a blank line, asks for a menu option), loads, lists, shows and exits
\* nothing, leaves the live catalog as it was and comes back to the menu.
C7_OnlyExactOptionsAct ==
    [][(stdin' < stdin /\ option_raw' \notin ExactOptions) =>
          /\ branch' \in {"blank", "invalid", "default"}
          /\ Len(out') = 1
          /\ out'[1].kind \in {"enter_option", "not_valid", "not_valid_number"}
          /\ catalog' = catalog
          /\ pc' = "menu"]_vars

-----------------------------------------------------------------------------
\* C8: options 2 and 3 say "load first" exactly when the live catalog has
\* no entry, and otherwise list the courses or go on to the course number;
\* a file that opens and holds blank lines only (or none) loads with
\* 0 courses and leaves the live catalog empty, whatever was loaded
\* before, after which options 2 and 3 say "load first" again.
C8_EmptinessIsTheSignal ==
    /\ branch = "list" =>
          /\ (out = <<Say("load_first")>>) <=> empty(catalog)
          /\ ~empty(catalog) => out[1] = Say("schedule")
    /\ branch = "detail" => ((out = <<Say("load_first")>>) <=> empty(catalog))
    /\ branch \in {"detail_cancelled", "detail_empty"} => ~empty(catalog)
    /\ (branch = "load" /\ file.opened /\ \A i \in 1..Len(file.lines) : IsBlank(file.lines[i])) =>
          /\ out = <<[kind |-> "loaded", courses |-> 0]>>
          /\ loads # <<>> /\ LastLoaded = file.lines
          /\ empty(catalog)

\* Courses were loaded, then a file of blank lines, and option 2 now says
\* "load first".
C8_Witness ==
    /\ loads = << <<Line_a_t, Line_b_u_a>>, << <<>>, <<Ch.sp>> >> >>
    /\ branch = "list"
    /\ out = <<Say("load_first")>>

-----------------------------------------------------------------------------
\* C9: the program terminates; it has returned only after option 9 or the
\* end of the input at the menu prompt, and then with exit code 0; every
\* other turn of the loop (a failed load, an empty file name, an invalid
\* option, "load first", a course not found, the input ending at the file
\* name or course prompt) comes back to the menu with the live catalog as
\* it was.
C9_TerminatesNormally ==
    /\ <>(pc = "done")
    /\ [](pc = "done" => (exit_code = 0 /\ branch \in {"exit", "eof"}))
    /\ [](pc # "done" => (exit_code = -1 /\ running))
    /\ [][(stdin' < stdin /\ branch' # "exit") =>
             /\ pc' = "menu" /\ running'
             /\ (branch' # "load" \/ out'[1].kind = "error") => catalog' = catalog]_vars

\* The input ended at the file name prompt, then at the menu prompt, with
\* a catalog loaded before: main has returned 0.
C9_Witness ==
    /\ pc = "done"
    /\ exit_code = 0
    /\ branch = "eof"
    /\ option_raw = <<Ch.d1>>
    /\ ~empty(catalog)

=============================================================================
